---- MODULE Spec2Model ----
(***************************************************************************)
(* Model of the network watchdog daemon (waggle_network_watchdog.py):      *)
(* the Watchdog tick (update), the rolling health history, the recovery    *)
(* ladder built by build_rec_actions, the three recovery actions and the   *)
(* persistent reset counters, across reboots of the node.                  *)
(*                                                                         *)
(* Time is in abstract seconds.  Ratios are kept as integer percentages:   *)
(* count/maxlen >= p is evaluated as 100*count >= pct*maxlen.              *)
(***************************************************************************)
EXTENDS Integers, Sequences, FiniteSets, TLC

\* ------------------------------------------------------------ bounds
\* largest clock value of one process (time.monotonic restarts at boot)
MaxTime == 5
\* largest clock advance between two consecutive ticks
MaxStep == 2
\* largest configured soft_num_resets / hard_num_resets
MaxResets == 1
\* largest value a counter file may hold (ticks that would exceed it are cut):
\* room for the network counter over one full escalation, which restarts the
\* network once in each of its soft_num_resets + hard_num_resets + 1 boots
MaxCount == 2 * MaxResets + 1
\* number of ticks of a scenario run
MaxTicks == 100
\* largest window of samples (health_check_history_count) that is followed
\* sample by sample
MaxWindow == 3

\* ------------------------------------------------------------ program constants
MEDIA_RECOVERY == 0
MEDIA_PRIMARY == 1
Media == {MEDIA_RECOVERY, MEDIA_PRIMARY}
\* efibootmgr BootNext not set (get_boot_info: next = "")
NoBootNext == 2

\* the three counter files of NetworkWatchdogConfig
Slots == {"network", "soft", "hard"}

\* content of a counter file: a number, or one of two non-numbers
\* Absent: Path(reset_file).exists() is false
Absent == -1
\* Unparsable: the file exists and int(f.readline()) raises (garbage, or the
\* empty file left by touch())
Unparsable == -2
FileStates == {Absent, Unparsable} \cup (0..MaxCount)

\* ------------------------------------------------------------ configuration
\* NetworkWatchdogConfig, the fields the state machine reads.
Configs ==
  { [ network_reset_start |-> 1,
      network_reset_interval |-> 1,
      soft_reset_start |-> ss,
      hard_reset_start |-> 3,
      soft_num_resets |-> sn,
      hard_num_resets |-> hn,
      health_check_period |-> 1,
      health_check_history |-> 2,
      health_check_healthy_perc |-> 70,
      health_check_recovery_perc |-> 30 ]
    : ss \in {2, 3}, sn \in 0..MaxResets, hn \in 0..MaxResets }

\* the configuration of the scenario runs, in seconds: a window of 60 / 15 = 4
\* samples, network restarts from 30 s every 15 s, soft reboot at 100 s, hard
\* reboot at 200 s
ScenarioConfigs ==
  { [ network_reset_start |-> 30,
      network_reset_interval |-> 15,
      soft_reset_start |-> 100,
      hard_reset_start |-> 200,
      soft_num_resets |-> 1,
      hard_num_resets |-> 1,
      health_check_period |-> 15,
      health_check_history |-> 60,
      health_check_healthy_perc |-> 70,
      health_check_recovery_perc |-> 30 ] }

\* configurations that differ in the window: history of 1 or 2 s checked every
\* 1 or 2 s
SizingConfigs ==
  { [c EXCEPT !.health_check_history = h, !.health_check_period = p]
    : c \in Configs, h \in {1, 2}, p \in {1, 2} }

\* configurations that differ in the schedule
LadderConfigs ==
  { [c EXCEPT !.network_reset_start = ns, !.network_reset_interval = ni,
              !.soft_reset_start = ss, !.hard_reset_start = hs]
    : c \in {d \in Configs : d.soft_num_resets = d.hard_num_resets},
      ns \in {0, 1, 4}, ni \in {-1, 0, 1, 2}, ss \in {1, 2, 3}, hs \in {2, 3} }

\* configurations that differ in the window: 1 to MaxWindow samples
WindowConfigs ==
  { [c EXCEPT !.health_check_history = n * c.health_check_period]
    : c \in Configs, n \in 1..MaxWindow }

\* build_watchdog: health_check_history_count
HistoryCount(c) == c.health_check_history \div c.health_check_period

\* ------------------------------------------------------------ state
VARIABLES
  cfg,                  \* the configuration, read once at startup
  world,                \* which failures the environment may produce
  media,                \* the medium the node is booted from (current_media)
  bootNext,             \* efibootmgr BootNext, or NoBootNext
  files,                \* files[slot]: the counter files of the booted medium
  proc,                 \* "down" | "running" | "crashed" | "killed"
  now,                  \* time_func() at the last sample
  last_connection_time, \* Watchdog.last_connection_time
  called_actions,       \* Watchdog.called_actions
  history,              \* Watchdog.health_score.history (the deque)
  tick,                 \* what the last update() did (observation only)
  episode,              \* invocations per ladder entry since the last healthy
                        \* classification of this process (observation only)
  halts,                \* during an outage: how each boot on this medium ended,
                        \* "soft" (reboot), "hard" (poweroff) or "switch"
                        \* (observation only)
  past,                 \* in the nominal world: the ladder positions invoked in
                        \* earlier episodes of this process (observation only)
  samples,              \* in the window world: the samples added to the window
                        \* of this process, oldest first (observation only)
  killed                \* the last death of the process inside the media switch:
                        \* [at: the point, 0 for none; on: the medium booted],
                        \* forgotten when the node boots the other medium
                        \* (observation only)

vars == <<cfg, world, media, bootNext, files, proc, now, last_connection_time,
          called_actions, history, tick, episode, halts, past, samples,
          killed>>

\* ------------------------------------------------------------ HealthHistory
\* HealthHistory.__init__: deque([False] * count, maxlen=count)
HealthHistory(count) == [i \in 1..count |-> FALSE]

\* a deque built without maxlen: nothing falls out
HealthHistoryAddNoMaxlen(h, n) == Append(h, n)

\* deque.append with maxlen: the oldest sample falls out on the left (with
\* maxlen 0 the deque stays empty)
HealthHistory_add(h, n) == Tail(Append(h, n))

\* self.history.count(True)
CountTrue(h) == Cardinality({i \in 1..Len(h) : h[i]})

\* percentage >= pct/100, where percentage = count(True) / maxlen
PercentageAtLeast(h, pct) == 100 * CountTrue(h) >= pct * Len(h)

\* ------------------------------------------------------------ recovery ladder
\* Action(thresh, func): a NamedTuple, so equal when thresh and func are equal
Action(thresh, func) == [thresh |-> thresh, func |-> func]

\* range(start, stop, step): counts up for step > 0, down for step < 0
Range(start, stop, step) ==
  LET n == IF step > 0 /\ stop > start
           THEN (stop - start + step - 1) \div step
           ELSE IF step < 0 /\ start > stop
           THEN (start - stop + (0 - step) - 1) \div (0 - step)
           ELSE 0
  IN [k \in 1..n |-> start + (k - 1) * step]

\* range() with step 0 raises ValueError
RangeRaises(step) == step = 0

\* an insertion that is not stable: x goes before the elements of equal thresh
RECURSIVE InsertBeforeEqual(_, _)
InsertBeforeEqual(s, x) ==
  IF s = <<>> THEN <<x>>
  ELSE IF x.thresh <= s[1].thresh THEN <<x>> \o s
  ELSE <<s[1]>> \o InsertBeforeEqual(Tail(s), x)

\* one step of a stable insertion sort on thresh: x goes after every element
\* whose thresh is <= x.thresh
RECURSIVE InsertByThresh(_, _)
InsertByThresh(s, x) ==
  IF s = <<>> THEN <<x>>
  ELSE IF x.thresh < s[1].thresh THEN <<x>> \o s
  ELSE <<s[1]>> \o InsertByThresh(Tail(s), x)

\* sorted(..., key=thresh) / list.sort(key=thresh): stable
RECURSIVE SortByThresh(_)
SortByThresh(s) ==
  IF s = <<>> THEN <<>>
  ELSE InsertByThresh(SortByThresh(SubSeq(s, 1, Len(s) - 1)), s[Len(s)])

\* build_rec_actions appending the hard entry before the soft entry
BuildHardBeforeSoft(c) ==
  LET last_action == IF c.soft_reset_start < c.hard_reset_start
                     THEN c.soft_reset_start ELSE c.hard_reset_start
      ts == Range(c.network_reset_start, last_action, c.network_reset_interval)
      network == [k \in 1..Len(ts) |-> Action(ts[k], "network")]
  IN SortByThresh(<<Action(c.hard_reset_start, "hard"),
                    Action(c.soft_reset_start, "soft")>> \o network)

\* build_rec_actions: soft and hard first, then the network entries, sorted
build_rec_actions(c) ==
  LET last_action == IF c.soft_reset_start < c.hard_reset_start
                     THEN c.soft_reset_start ELSE c.hard_reset_start
      ts == Range(c.network_reset_start, last_action, c.network_reset_interval)
      network == [k \in 1..Len(ts) |-> Action(ts[k], "network")]
  IN SortByThresh(<<Action(c.soft_reset_start, "soft"),
                    Action(c.hard_reset_start, "hard")>> \o network)

\* Watchdog.__init__: self.recovery_actions, sorted again by thresh
recovery_actions(c) == SortByThresh(build_rec_actions(c))

\* ------------------------------------------------------------ counter store
\* The code of one tick runs on a machine record m:
\*   fs    content of the counter files of the booted medium
\*   next  efibootmgr BootNext
\*   log   the calls made so far, in order
\*   ret   the value returned by the last read
\*   exc   an exception is propagating (the rest of the code is skipped)
\*   dead  the process was killed (the rest of the code is skipped)
\*   halt  "reboot" / "poweroff" once systemd has accepted the request
\*   snap  the counter files as they were when reboot/poweroff was requested
\* under the conditions e the environment offers during the tick:
\*   canRead, canWrite  open(f, "r") / open(f, "w") succeed
\*   canCreate          mkdir and touch succeed, a missing file can be created
\*   efiOk              efibootmgr succeeds
\*   sysOk              systemctl reboot / poweroff is honoured
\*   media              current_media
\*   crash              the point of the media switch at which the process
\*                      dies during this tick, 0 for none
Event(ev, slot, val) == [ev |-> ev, slot |-> slot, val |-> val]

Log(m, ev, slot, val) == [m EXCEPT !.log = Append(@, Event(ev, slot, val))]

Raise(m) == [m EXCEPT !.exc = TRUE]

\* The points of the media-switch path of hard_reboot_action between which the
\* process may die: 1 after the increment of the hard counter, 2 after
\* set_next_boot_media, 3, 4, 5 after the hard, soft and network counters are
\* written to 0 (5: before reboot is requested).
CrashPoints == 1..5

\* the process dies at point k when the environment has it so
Die(m, e, k) ==
  IF m.exc \/ e.crash # k THEN m
  ELSE [Log(m, "killed", "-", k) EXCEPT !.exc = TRUE, !.dead = TRUE]

\* read_resets_safe returning 1 instead of 0 on an exception
ReadResetsDefaultOne(m, e, f) ==
  IF e.canRead /\ m.fs[f] >= 0
  THEN [m EXCEPT !.ret = m.fs[f]]
  ELSE [Log(m, "read_failed", f, 0) EXCEPT !.ret = 1]

\* read_resets_safe: int(f.readline()); on any exception a warning and 0
read_resets_safe(m, e, f) ==
  IF e.canRead /\ m.fs[f] >= 0
  THEN [m EXCEPT !.ret = m.fs[f]]
  ELSE [Log(m, "read_failed", f, 0) EXCEPT !.ret = 0]

\* write_resets_safe: open(f, "w") and write, any exception swallowed
write_resets_safe(m, e, f, resets) ==
  IF e.canWrite /\ (m.fs[f] # Absent \/ e.canCreate)
  THEN Log([m EXCEPT !.fs[f] = resets], "write", f, resets)
  ELSE Log(m, "write_failed", f, resets)

\* read_current_resets: creates the file holding 0 when it does not exist;
\* mkdir and touch are outside any try
read_current_resets(m, e, f) ==
  IF m.exc THEN m
  ELSE IF m.fs[f] = Absent
  THEN IF e.canCreate
       THEN [write_resets_safe([m EXCEPT !.fs[f] = Unparsable], e, f, 0)
               EXCEPT !.ret = 0]
       ELSE Raise(m)
  ELSE read_resets_safe(m, e, f)

write_current_resets(m, e, f, current_resets) ==
  IF m.exc THEN m ELSE write_resets_safe(m, e, f, current_resets)

increment_reset_file(m, e, f) ==
  LET r == read_current_resets(m, e, f)
  IN write_current_resets(r, e, f, r.ret + 1)

update_reset_file(m, e, f, value) ==
  LET r == read_current_resets(m, e, f)
  IN IF ~r.exc /\ value # r.ret THEN write_current_resets(r, e, f, value) ELSE r

\* ------------------------------------------------------------ platform
\* log_scoreboard: reads the three counters (and so may create them)
log_scoreboard(m, e) ==
  read_current_resets(
    read_current_resets(
      read_current_resets(m, e, "network"), e, "soft"), e, "hard")

\* restart_network_services: subprocess.run without check, never raises
restart_network_services(m, e) ==
  IF m.exc THEN m ELSE Log(m, "restart_services", "-", 0)

\* one request to systemd: subprocess.run(["systemctl", what]) returns either way
Systemctl(m, e, what) ==
  IF m.exc THEN m
  ELSE [Log(m, what, "-", 0) EXCEPT !.halt = IF e.sysOk THEN what ELSE @,
                                    !.snap = m.fs]

reboot_os_helper(m, e) == Systemctl(log_scoreboard(m, e), e, "reboot")

shutdown_os_helper(m, e) == Systemctl(log_scoreboard(m, e), e, "poweroff")

\* set_next_boot_media: get_boot_info and efibootmgr -n raise on failure
set_next_boot_media(m, e, target_media) ==
  IF m.exc THEN m
  ELSE IF e.efiOk
  THEN [Log(m, "set_next_boot_media", "-", target_media)
          EXCEPT !.next = target_media]
  ELSE Raise(Log(m, "set_next_boot_media_failed", "-", target_media))

\* ------------------------------------------------------------ recovery actions
reset_network_action(m, e, c) ==
  increment_reset_file(restart_network_services(m, e), e, "network")

\* soft_reboot_action incrementing the counter on every call
SoftAlwaysIncrement(m, e, c) ==
  LET r == read_current_resets(m, e, "soft")
      i == increment_reset_file(r, e, "soft")
  IN IF i.exc THEN i
     ELSE IF r.ret < c.soft_num_resets
     THEN reboot_os_helper(i, e)
     ELSE Log(i, "skip_soft", "-", 0)

soft_reboot_action(m, e, c) ==
  LET r == read_current_resets(m, e, "soft")
  IN IF r.exc THEN r
     ELSE IF r.ret < c.soft_num_resets
     THEN reboot_os_helper(increment_reset_file(r, e, "soft"), e)
     ELSE Log(r, "skip_soft", "-", 0)

\* the media switch clearing the counters before it selects the boot medium
MediaSwitchClearFirst(m, e, c) ==
  LET target == IF e.media = MEDIA_RECOVERY THEN MEDIA_PRIMARY
                ELSE MEDIA_RECOVERY
      w1 == Die(write_current_resets(m, e, "hard", 0), e, 3)
      w2 == Die(write_current_resets(w1, e, "soft", 0), e, 4)
      w3 == Die(write_current_resets(w2, e, "network", 0), e, 5)
      s == Die(set_next_boot_media(w3, e, target), e, 2)
  IN reboot_os_helper(s, e)

\* the else branch of hard_reboot_action
media_switch(m, e, c) ==
  LET target == IF e.media = MEDIA_RECOVERY THEN MEDIA_PRIMARY
                ELSE MEDIA_RECOVERY
      s == Die(set_next_boot_media(m, e, target), e, 2)
      w1 == Die(write_current_resets(s, e, "hard", 0), e, 3)
      w2 == Die(write_current_resets(w1, e, "soft", 0), e, 4)
      w3 == Die(write_current_resets(w2, e, "network", 0), e, 5)
  IN reboot_os_helper(w3, e)

\* hard_reboot_action comparing with <= instead of <
HardOffByOne(m, e, c) ==
  LET r == read_current_resets(m, e, "hard")
      i == increment_reset_file(r, e, "hard")
  IN IF i.exc THEN i
     ELSE IF r.ret <= c.hard_num_resets
     THEN shutdown_os_helper(i, e)
     ELSE media_switch(Die(Log(i, "media_switch", "-", 0), e, 1), e, c)

hard_reboot_action(m, e, c) ==
  LET r == read_current_resets(m, e, "hard")
      i == increment_reset_file(r, e, "hard")
  IN IF i.exc THEN i
     ELSE IF r.ret < c.hard_num_resets
     THEN shutdown_os_helper(i, e)
     ELSE media_switch(Die(Log(i, "media_switch", "-", 0), e, 1), e, c)

\* action.func()
CallAction(m, e, c, func) ==
  CASE func = "network" -> reset_network_action(m, e, c)
    [] func = "soft" -> soft_reboot_action(m, e, c)
    [] func = "hard" -> hard_reboot_action(m, e, c)

\* health_check_passed leaving the network counter alone
HealthCheckPassedNoNetwork(m, e) ==
  update_reset_file(update_reset_file(m, e, "hard", 0), e, "soft", 0)

\* build_watchdog.health_check_passed
health_check_passed(m, e) ==
  update_reset_file(
    update_reset_file(
      update_reset_file(m, e, "hard", 0), e, "soft", 0), e, "network", 0)

\* ------------------------------------------------------------ Watchdog.update
\* The for loop over self.recovery_actions, from position i.  st holds the
\* machine m, the set called_actions and the ladder positions called so far.
\*   if elapsed < action.thresh: break
\*   if action in self.called_actions: continue
\*   self.called_actions.add(action); action.func(); break
RECURSIVE Dispatch(_, _, _, _, _, _)
\* the loop without the break after action.func()
RECURSIVE DispatchNoBreak(_, _, _, _, _, _)
DispatchNoBreak(actions, elapsed, e, c, i, st) ==
  IF i > Len(actions) \/ st.m.exc THEN st
  ELSE IF elapsed < actions[i].thresh THEN st
  ELSE IF actions[i] \in st.called_actions
  THEN DispatchNoBreak(actions, elapsed, e, c, i + 1, st)
  ELSE DispatchNoBreak(actions, elapsed, e, c, i + 1,
         [ m |-> CallAction(st.m, e, c, actions[i].func),
           called_actions |-> st.called_actions \cup {actions[i]},
           called |-> Append(st.called, i) ])

\* the loop without self.called_actions.add(action)
RECURSIVE DispatchNoAdd(_, _, _, _, _, _)
DispatchNoAdd(actions, elapsed, e, c, i, st) ==
  IF i > Len(actions) \/ st.m.exc THEN st
  ELSE IF elapsed < actions[i].thresh THEN st
  ELSE IF actions[i] \in st.called_actions
  THEN DispatchNoAdd(actions, elapsed, e, c, i + 1, st)
  ELSE [ m |-> CallAction(st.m, e, c, actions[i].func),
         called_actions |-> st.called_actions,
         called |-> Append(st.called, i) ]

\* the loop adding the action to self.called_actions after action.func()
\* returned, so not when it raised
RECURSIVE DispatchAddAfter(_, _, _, _, _, _)
DispatchAddAfter(actions, elapsed, e, c, i, st) ==
  IF i > Len(actions) \/ st.m.exc THEN st
  ELSE IF elapsed < actions[i].thresh THEN st
  ELSE IF actions[i] \in st.called_actions
  THEN DispatchAddAfter(actions, elapsed, e, c, i + 1, st)
  ELSE LET m2 == CallAction(st.m, e, c, actions[i].func)
       IN [ m |-> m2,
            called_actions |-> IF m2.exc THEN st.called_actions
                               ELSE st.called_actions \cup {actions[i]},
            called |-> Append(st.called, i) ]

Dispatch(actions, elapsed, e, c, i, st) ==
  IF i > Len(actions) \/ st.m.exc THEN st
  ELSE IF elapsed < actions[i].thresh THEN st
  ELSE IF actions[i] \in st.called_actions
  THEN Dispatch(actions, elapsed, e, c, i + 1, st)
  ELSE [ m |-> CallAction(st.m, e, c, actions[i].func),
         called_actions |-> st.called_actions \cup {actions[i]},
         called |-> Append(st.called, i) ]

\* update() taking the healthy branch whenever the probe passed
UpdateOnProbe(self, m, e, c, health_check_ok, t) ==
  LET elapsed == t - self.last_connection_time
      h == HealthHistory_add(self.history, health_check_ok)
      healthy == health_check_ok
      recovery == ~PercentageAtLeast(h, c.health_check_recovery_perc)
      m1 == IF healthy THEN health_check_passed(m, e) ELSE m
      passed == healthy /\ ~m1.exc
      st1 == [ m |-> m1,
               called_actions |-> IF passed THEN {} ELSE self.called_actions,
               called |-> <<>> ]
      st2 == IF recovery
             THEN Dispatch(recovery_actions(c), elapsed, e, c, 1, st1)
             ELSE st1
  IN [ last_connection_time |-> IF passed THEN t ELSE self.last_connection_time,
       called_actions |-> st2.called_actions,
       history |-> h,
       m |-> st2.m,
       healthy |-> healthy,
       recovery |-> recovery,
       elapsed |-> elapsed,
       called |-> st2.called ]

\* update() escalating whenever the window is not healthy
UpdateNoBand(self, m, e, c, health_check_ok, t) ==
  LET elapsed == t - self.last_connection_time
      h == HealthHistory_add(self.history, health_check_ok)
      healthy == PercentageAtLeast(h, c.health_check_healthy_perc)
      recovery == ~PercentageAtLeast(h, c.health_check_healthy_perc)
      m1 == IF healthy THEN health_check_passed(m, e) ELSE m
      passed == healthy /\ ~m1.exc
      st1 == [ m |-> m1,
               called_actions |-> IF passed THEN {} ELSE self.called_actions,
               called |-> <<>> ]
      st2 == IF recovery
             THEN Dispatch(recovery_actions(c), elapsed, e, c, 1, st1)
             ELSE st1
  IN [ last_connection_time |-> IF passed THEN t ELSE self.last_connection_time,
       called_actions |-> st2.called_actions,
       history |-> h,
       m |-> st2.m,
       healthy |-> healthy,
       recovery |-> recovery,
       elapsed |-> elapsed,
       called |-> st2.called ]

\* update() whose healthy branch leaves called_actions as it is
UpdateKeepsFired(self, m, e, c, health_check_ok, t) ==
  LET elapsed == t - self.last_connection_time
      h == HealthHistory_add(self.history, health_check_ok)
      healthy == PercentageAtLeast(h, c.health_check_healthy_perc)
      recovery == ~PercentageAtLeast(h, c.health_check_recovery_perc)
      m1 == IF healthy THEN health_check_passed(m, e) ELSE m
      passed == healthy /\ ~m1.exc
      st1 == [ m |-> m1,
               called_actions |-> self.called_actions,
               called |-> <<>> ]
      st2 == IF recovery
             THEN Dispatch(recovery_actions(c), elapsed, e, c, 1, st1)
             ELSE st1
  IN [ last_connection_time |-> IF passed THEN t ELSE self.last_connection_time,
       called_actions |-> st2.called_actions,
       history |-> h,
       m |-> st2.m,
       healthy |-> healthy,
       recovery |-> recovery,
       elapsed |-> elapsed,
       called |-> st2.called ]

\* self: [last_connection_time, called_actions, history]; m: the machine before
\* the tick; health_check_ok: the probe; t: time_func() after the probe.
\* The result holds the object and the machine after the tick, and
\*   healthy / recovery  which of the two branch conditions held
\*   elapsed             t - last_connection_time as computed at the start
\*   called              the ladder positions whose func was called, in order
update(self, m, e, c, health_check_ok, t) ==
  LET elapsed == t - self.last_connection_time
      h == HealthHistory_add(self.history, health_check_ok)
      \* HealthHistory.add divides by maxlen: ZeroDivisionError for a window of 0
      zero == Len(h) = 0
      healthy == ~zero /\ PercentageAtLeast(h, c.health_check_healthy_perc)
      recovery == ~zero /\ ~PercentageAtLeast(h, c.health_check_recovery_perc)
      m1 == IF zero THEN Raise(Log(m, "zero_division", "-", 0))
            ELSE IF healthy THEN health_check_passed(m, e) ELSE m
      passed == healthy /\ ~m1.exc
      st1 == [ m |-> m1,
               called_actions |-> IF passed THEN {} ELSE self.called_actions,
               called |-> <<>> ]
      st2 == IF recovery
             THEN Dispatch(recovery_actions(c), elapsed, e, c, 1, st1)
             ELSE st1
  IN [ last_connection_time |-> IF passed THEN t ELSE self.last_connection_time,
       called_actions |-> st2.called_actions,
       history |-> h,
       m |-> st2.m,
       healthy |-> healthy,
       recovery |-> recovery,
       elapsed |-> elapsed,
       called |-> st2.called ]

\* ------------------------------------------------------------ environment
\* What the environment may do during one tick, by world:
\*   "faulty"   the counter store or a platform command may fail
\*   "nominal"  they succeed
\*   "window"   as "nominal", the samples of the process being recorded
\*   "outage"   they succeed and the probe never passes
\*   "crash"    as "outage", and the process may die inside the media switch
\*   "healthy"  scenario run: they succeed and the probe always passes
\*   "flapping" scenario run: they succeed and the probe passes and fails in turn
\* A scenario run ticks once per health_check_period, as main() does with
\* time.sleep; its first tick comes right after construction or one period later.
\* A condition holds for the whole tick; at most one fault is present at a time.
\* lost: the counter files of the booted medium have vanished since the last
\* tick (storage removed or wiped).
Cond(r, w, cr, lost, efi, sys) ==
  [ canRead |-> r, canWrite |-> w, canCreate |-> cr, lost |-> lost,
    efiOk |-> efi, sysOk |-> sys, crash |-> 0 ]

CondOk == Cond(TRUE, TRUE, TRUE, FALSE, TRUE, TRUE)

Conds(w) ==
  IF w = "faulty"
  THEN { CondOk,
         Cond(FALSE, TRUE, TRUE, FALSE, TRUE, TRUE),   \* files unreadable
         Cond(TRUE, FALSE, FALSE, FALSE, TRUE, TRUE),  \* read-only file system
         Cond(TRUE, FALSE, FALSE, TRUE, TRUE, TRUE),   \* files gone, not creatable
         Cond(TRUE, TRUE, TRUE, FALSE, FALSE, TRUE),   \* efibootmgr fails
         Cond(TRUE, TRUE, TRUE, FALSE, TRUE, FALSE) }  \* systemctl not honoured
  ELSE IF w = "crash"
  THEN { [CondOk EXCEPT !.crash = k] : k \in {0} \cup CrashPoints }
  ELSE { CondOk }

Scenarios == {"healthy", "flapping"}

\* health_check(): ssh_connection_ok returns False on any exception.  h is the
\* window before the sample; a flapping probe starts with a pass.
Probes(w, h) ==
  IF w \in {"outage", "crash"} THEN {FALSE}
  ELSE IF w = "healthy" THEN {TRUE}
  ELSE IF w = "flapping" THEN {h = <<>> \/ ~h[Len(h)]}
  ELSE BOOLEAN

\* by how much time_func() may have advanced since the last sample
Steps(w, c, first) ==
  IF w \in Scenarios
  THEN {c.health_check_period} \cup (IF first THEN {0} ELSE {})
  ELSE 1..MaxStep

\* the clock value up to which a process is followed
TimeLimit(w, c) ==
  IF w \in Scenarios THEN MaxTicks * c.health_check_period ELSE MaxTime

Env(sc, md) ==
  [ canRead |-> sc.canRead, canWrite |-> sc.canWrite,
    canCreate |-> sc.canCreate, efiOk |-> sc.efiOk, sysOk |-> sc.sysOk,
    media |-> md, crash |-> sc.crash ]

\* the machine at the start of a tick
Machine(fs, next) ==
  [ fs |-> fs, next |-> next, log |-> <<>>, ret |-> 0, exc |-> FALSE,
    dead |-> FALSE, halt |-> "none", snap |-> fs ]

NoFiles == [s \in Slots |-> Absent]

\* the counter files found on a medium when it is first booted: none yet, or
\* each one holding 0 or something int() rejects; other numbers come from
\* running.  Each medium has its own files (primary_storage_loc).
InitStores == {NoFiles} \cup [Slots -> {Unparsable, 0}]

InBounds(fs) == \A s \in Slots : fs[s] <= MaxCount

\* the counter files a scenario run may start from
ScenarioStores == [Slots -> {Unparsable, 0, 1}]

\* what a tick leaves for the properties to read
Observe(op, ok, r) ==
  [ op |-> op, ok |-> ok, healthy |-> r.healthy, recovery |-> r.recovery,
    elapsed |-> r.elapsed, called |-> r.called, log |-> r.m.log,
    raised |-> r.m.exc /\ ~r.m.dead, halt |-> r.m.halt, snap |-> r.m.snap ]

\* how a tick that brought the node down ended the boot
HaltKind(r) ==
  IF \E k \in DOMAIN r.m.log : r.m.log[k].ev = "media_switch" THEN "switch"
  ELSE IF r.m.halt = "poweroff" THEN "hard"
  ELSE "soft"

\* ------------------------------------------------------------ actions
\* the medium the firmware boots: BootNext when set (it applies to one boot),
\* otherwise the medium booted last
BootMedia == IF bootNext # NoBootNext THEN bootNext ELSE media

\* The node boots and main() runs up to its loop: read_current_media,
\* build_watchdog (Watchdog.__init__), log_scoreboard.  After the process was
\* killed, main() starts again either with a boot of the node or, the service
\* being started again, on the running system (fresh = FALSE).
Boot ==
  /\ proc \in {"down", "killed"}
  /\ \E sc \in Conds(world), fresh \in {TRUE} \cup {proc # "killed"},
        found \in (IF BootMedia # media THEN InitStores ELSE {files}) :
       LET md == IF fresh THEN BootMedia ELSE media
           e == Env(sc, md)
           fs == IF sc.lost THEN NoFiles ELSE IF fresh THEN found ELSE files
           m0 == Machine(fs, IF fresh THEN NoBootNext ELSE bootNext)
           ok == e.efiOk /\ ~RangeRaises(cfg.network_reset_interval)
       IN \E m \in {IF ok THEN log_scoreboard(m0, e) ELSE Raise(m0)} :
          /\ media' = md
          /\ bootNext' = m.next
          /\ halts' = IF md # media THEN <<>> ELSE halts
          /\ killed' = IF md # media THEN [at |-> 0, on |-> md] ELSE killed
          /\ files' = m.fs
          /\ proc' = IF m.exc THEN "crashed" ELSE "running"
          /\ tick' = Observe("boot", FALSE,
                       [healthy |-> FALSE, recovery |-> FALSE, elapsed |-> 0,
                        called |-> <<>>, m |-> m])
  /\ now' = 0
  /\ last_connection_time' = 0
  /\ called_actions' = {}
  /\ history' = HealthHistory(HistoryCount(cfg))
  /\ episode' = [i \in 1..Len(recovery_actions(cfg)) |-> 0]
  /\ past' = {}
  /\ samples' = <<>>
  /\ UNCHANGED <<cfg, world>>

\* One iteration of main()'s loop: watchdog.update().
Update ==
  /\ proc = "running"
  /\ \E ok \in Probes(world, history),
        dt \in Steps(world, cfg, tick.op = "boot"), sc \in Conds(world) :
       LET t == now + dt
           self == [ last_connection_time |-> last_connection_time,
                     called_actions |-> called_actions,
                     history |-> history ]
           fs == IF sc.lost THEN NoFiles ELSE files
       IN /\ t <= TimeLimit(world, cfg)
          /\ \E r \in {update(self, Machine(fs, bootNext), Env(sc, media),
                              cfg, ok, t)} :
               /\ InBounds(r.m.fs)
               /\ now' = t
               /\ last_connection_time' = r.last_connection_time
               /\ called_actions' = r.called_actions
               /\ history' = r.history
               /\ files' = r.m.fs
               /\ bootNext' = r.m.next
               /\ proc' = IF r.m.dead THEN "killed"
                          ELSE IF r.m.exc THEN "crashed"
                          ELSE IF r.m.halt # "none" THEN "down"
                          ELSE "running"
               /\ past' = IF world = "nominal" /\ r.healthy
                           THEN past \cup {i \in DOMAIN episode : episode[i] >= 1}
                           ELSE past
               /\ samples' = IF world = "window" THEN Append(samples, ok)
                              ELSE samples
               /\ killed' = IF r.m.dead
                             THEN [at |-> r.m.log[Len(r.m.log)].val, on |-> media]
                             ELSE killed
               /\ tick' = Observe("update", ok, r)
               /\ episode' = [i \in DOMAIN episode |->
                                (IF r.healthy THEN 0 ELSE episode[i])
                                + Cardinality({k \in DOMAIN r.called : r.called[k] = i})]
               /\ halts' = IF world = "outage" /\ r.m.halt # "none"
                           THEN Append(halts, HaltKind(r))
                           ELSE halts
  /\ UNCHANGED <<cfg, world, media>>

Next == Boot \/ Update

\* ------------------------------------------------------------ specifications
InitNode(w, configs, stores) ==
  /\ cfg \in configs
  /\ world = w
  /\ media = MEDIA_PRIMARY
  /\ bootNext = NoBootNext
  /\ files \in stores
  /\ proc = "down"
  /\ now = 0
  /\ last_connection_time = 0
  /\ called_actions = {}
  /\ history = HealthHistory(HistoryCount(cfg))
  /\ tick = Observe("off", FALSE,
              [healthy |-> FALSE, recovery |-> FALSE, elapsed |-> 0,
               called |-> <<>>, m |-> Machine(NoFiles, NoBootNext)])
  /\ episode = [i \in 1..Len(recovery_actions(cfg)) |-> 0]
  /\ halts = <<>>
  /\ past = {}
  /\ samples = <<>>
  /\ killed = [at |-> 0, on |-> MEDIA_PRIMARY]

\* any environment: store and platform failures included
Init == InitNode("faulty", Configs, InitStores)

Spec == Init /\ [][Next]_vars

\* the counter store and the platform commands work
InitNominal == InitNode("nominal", Configs, InitStores)

SpecNominal == InitNominal /\ [][Next]_vars

\* a permanent outage: the probe never passes, store and platform work, the
\* counters start at 0 and the soft tier comes before the hard tier.
InitOutage ==
  InitNode("outage",
           {c \in Configs : c.soft_reset_start < c.hard_reset_start},
           {[s \in Slots |-> 0]})

SpecOutage == InitOutage /\ [][Next]_vars

\* a permanent outage in which the process may die inside the media switch
InitCrash == InitNode("crash", Configs, {[s \in Slots |-> 0]})

SpecCrash == InitCrash /\ [][Next]_vars

\* any window size, store and platform working
InitSizing == InitNode("nominal", SizingConfigs, {[s \in Slots |-> 0]})

SpecSizing == InitSizing /\ [][Next]_vars

\* any schedule, store and platform working
InitLadder == InitNode("nominal", LadderConfigs, {[s \in Slots |-> 0]})

SpecLadder == InitLadder /\ [][Next]_vars

\* any window of 1 to MaxWindow samples and any probe outcomes, store and
\* platform working
InitWindow == InitNode("window", WindowConfigs, {[s \in Slots |-> 0]})

SpecWindow == InitWindow /\ [][Next]_vars

\* scenario run: the probe always passes
InitHealthy == InitNode("healthy", ScenarioConfigs, ScenarioStores)

SpecHealthy == InitHealthy /\ [][Next]_vars

\* scenario run: the probe passes and fails in turn, starting with a pass
InitFlapping == InitNode("flapping", ScenarioConfigs, ScenarioStores)

SpecFlapping == InitFlapping /\ [][Next]_vars

\* ------------------------------------------------------------ properties
\* the ladder of the running Watchdog
Ladder == recovery_actions(cfg)

\* the classification of the window as it stands after the last sample
HealthyRatio ==
  100 * CountTrue(history) >= cfg.health_check_healthy_perc * Len(history)

RecoveryRatio ==
  100 * CountTrue(history) < cfg.health_check_recovery_perc * Len(history)

\* ladder positions that are due at the elapsed time of the last tick and are
\* not in the fired set
DueUnfired ==
  {i \in DOMAIN Ladder :
     Ladder[i].thresh <= tick.elapsed /\ Ladder[i] \notin called_actions}

\* C1: a single update() calls at most one recovery action, whatever the probe
\* outcomes and clock values were and however many ladder entries are due and
\* unfired on that tick.
C1_AtMostOneActionPerUpdate ==
  tick.op = "update" => Len(tick.called) <= 1

\* an update() called one action while another entry was due and unfired
C1_Witness ==
  /\ tick.op = "update"
  /\ Len(tick.called) = 1
  /\ DueUnfired # {}

\* C2: between two healthy classifications of one process, the action of each
\* ladder entry is called at most once.
C2_OncePerEpisode ==
  \A i \in DOMAIN episode : episode[i] <= 1

\* a tick of an episode passed over an entry fired earlier in the episode and
\* called a later one
C2_Witness ==
  /\ tick.op = "update"
  /\ ~HealthyRatio
  /\ \E i, j \in DOMAIN episode :
       /\ i < j
       /\ tick.called = <<j>>
       /\ episode[i] = 1
       /\ Ladder[i].thresh <= tick.elapsed

InBand == ~HealthyRatio /\ ~RecoveryRatio

\* the calls of a tick that write, or try to write, a counter file
Writes(log) == {k \in DOMAIN log : log[k].ev \in {"write", "write_failed"}}

\* C3: only an update() whose window is healthy after the sample clears the
\* fired set or changes last_connection_time; every other update() leaves
\* last_connection_time as it was and removes nothing from the fired set.
C3_OnlyHealthyResets ==
  [][ (tick'.op = "update" /\ ~HealthyRatio')
        => /\ last_connection_time' = last_connection_time
           /\ called_actions \subseteq called_actions' ]_vars

\* a tick that was not healthy fired an action on top of one fired before, with
\* the anchor still behind the clock
C3_Witness ==
  /\ tick.op = "update"
  /\ ~HealthyRatio
  /\ Len(tick.called) = 1
  /\ Cardinality(called_actions) >= 2
  /\ last_connection_time < now

\* C4: an update() whose window ends in the hysteresis band calls no recovery
\* action, writes no counter, and leaves last_connection_time and the fired
\* set exactly as they were.
C4_HysteresisBandFrame ==
  [][ (tick'.op = "update" /\ InBand')
        => /\ tick'.called = <<>>
           /\ Writes(tick'.log) = {}
           /\ last_connection_time' = last_connection_time
           /\ called_actions' = called_actions ]_vars

\* a tick in the band, with an entry fired before and another due and unfired
C4_Witness ==
  /\ tick.op = "update"
  /\ InBand
  /\ called_actions # {}
  /\ DueUnfired # {}
  /\ last_connection_time < now

\* the value a counter file reads as (read_current_resets): its number, and 0
\* for a file that is missing or does not parse
CounterValue(v) == IF v >= 0 THEN v ELSE 0

\* the func called by a tick, "none" when it called none
CalledFunc(t) == IF t.called = <<>> THEN "none" ELSE Ladder[t.called[1]].func

\* positions of a call in a log
At(log, ev) == {k \in DOMAIN log : log[k].ev = ev}

\* positions where counter file s was set to 0
Zeroed(log, s) ==
  {k \in DOMAIN log : log[k].ev = "write" /\ log[k].slot = s /\ log[k].val = 0}

\* C5: after every update() classified healthy the three counters read 0, the
\* fired set is empty and last_connection_time is the time sampled on that
\* tick, whatever the counters held before (store and platform working).
C5_HealthyResetsAll ==
  (tick.op = "update" /\ HealthyRatio)
    => /\ \A s \in Slots : CounterValue(files[s]) = 0
       /\ called_actions = {}
       /\ last_connection_time = now

\* a healthy tick that had to set all three counters back to 0
C5_Witness ==
  /\ tick.op = "update"
  /\ HealthyRatio
  /\ \A s \in Slots : Zeroed(tick.log, s) # {}

\* C6: the SOFT action called with the soft counter reading n: if
\* n < soft_num_resets the counter becomes n+1 and reboot is requested,
\* otherwise the counter is left alone and no reboot is requested; and no step
\* takes the soft counter from at most soft_num_resets to above it.
C6_SoftCounterCapped ==
  [][ /\ (tick'.op = "update" /\ CalledFunc(tick') = "soft")
           => IF CounterValue(files["soft"]) < cfg.soft_num_resets
              THEN /\ files'["soft"] = CounterValue(files["soft"]) + 1
                   /\ At(tick'.log, "reboot") # {}
              ELSE /\ files'["soft"] = files["soft"]
                   /\ At(tick'.log, "reboot") = {}
      /\ CounterValue(files["soft"]) <= cfg.soft_num_resets
           => CounterValue(files'["soft"]) <= cfg.soft_num_resets ]_vars

\* the SOFT action was called with the counter at its limit, after earlier
\* calls had raised it there, and skipped the reboot
C6_Witness ==
  /\ tick.op = "update"
  /\ CalledFunc(tick) = "soft"
  /\ At(tick.log, "skip_soft") # {}
  /\ cfg.soft_num_resets >= 1
  /\ files["soft"] = cfg.soft_num_resets
  /\ proc = "running"

\* C7: the HARD action called with the hard counter reading at least
\* hard_num_resets: set_next_boot_media is called with the other medium before
\* any counter is written to 0, the three counters are then written to 0 and
\* are 0 when reboot is requested, and poweroff is not requested.
C7_MediaSwitchOrder ==
  [][ ( /\ tick'.op = "update"
        /\ CalledFunc(tick') = "hard"
        /\ CounterValue(files["hard"]) >= cfg.hard_num_resets )
        => LET log == tick'.log
           IN /\ At(log, "poweroff") = {}
              /\ \E p \in At(log, "set_next_boot_media"), q \in At(log, "reboot") :
                   /\ log[p].val \in Media \ {media}
                   /\ \A s \in Slots :
                        /\ \A k \in Zeroed(log, s) : p < k
                        /\ \E k \in Zeroed(log, s) : k < q
                        /\ tick'.snap[s] = 0 ]_vars

\* a media switch after the hard tier was used up by earlier power-offs
C7_Witness ==
  /\ tick.op = "update"
  /\ CalledFunc(tick) = "hard"
  /\ At(tick.log, "media_switch") # {}
  /\ cfg.hard_num_resets >= 1
  /\ tick.halt = "reboot"
  /\ bootNext \in Media \ {media}
  /\ \A s \in Slots : files[s] = 0

\* soft_num_resets soft reboots, then hard_num_resets power-offs, then the switch
Expected(c) ==
  [k \in 1..(c.soft_num_resets + c.hard_num_resets + 1) |->
     IF k <= c.soft_num_resets THEN "soft"
     ELSE IF k <= c.soft_num_resets + c.hard_num_resets THEN "hard"
     ELSE "switch"]

IsPrefix(s, t) == Len(s) <= Len(t) /\ \A k \in DOMAIN s : s[k] = t[k]

\* C8: under a permanent outage, from counters that read 0 (on a medium just
\* switched to as on the first one) and with the soft tier before
\* the hard tier, the boots end in exactly soft_num_resets soft reboots, then
\* exactly hard_num_resets power-offs (the SOFT action having been called and
\* skipped on those boots), then the media switch.  The switch is reached in
\* the end: every tick at or past hard_reset_start calls an action and a call
\* of HARD always ends the boot, so no boot lasts forever.
C8_Escalation ==
  /\ IsPrefix(halts, Expected(cfg))
  /\ (tick.op = "update" /\ tick.halt # "none")
       => /\ halts # <<>>
          /\ tick.halt = (IF halts[Len(halts)] = "hard" THEN "poweroff"
                          ELSE "reboot")
          /\ (halts[Len(halts)] = "switch") = (bootNext \in Media \ {media})
  /\ (tick.op = "update" /\ tick.halt = "poweroff")
       => /\ Action(cfg.soft_reset_start, "soft") \in called_actions
          /\ CounterValue(files["soft"]) = cfg.soft_num_resets
  /\ (tick.op = "update" /\ tick.elapsed >= cfg.hard_reset_start)
       => tick.called # <<>>
  /\ (tick.op = "update" /\ CalledFunc(tick) = "hard") => proc = "down"

\* the whole sequence happened, with at least one boot of each kind
C8_Witness ==
  /\ halts = Expected(cfg)
  /\ cfg.soft_num_resets >= 1
  /\ cfg.hard_num_resets >= 1
  /\ tick.halt = "reboot"

\* C9: when set_next_boot_media fails on the media-switch path, the failure
\* is contained: the three counters are still written to 0 and reboot is then
\* requested.
C9_SwitchFailureContained ==
  (tick.op = "update" /\ At(tick.log, "set_next_boot_media_failed") # {})
    => /\ ~tick.raised
       /\ \A s \in Slots : Zeroed(tick.log, s) # {}
       /\ At(tick.log, "reboot") # {}

\* C10: no error is raised out of update(): whatever the probe, the counter
\* store and the platform commands do, update() returns and the loop goes on,
\* unless the node goes down through reboot or poweroff.
C10_UpdateNeverRaises ==
  tick.op = "update" => (~tick.raised /\ proc \in {"running", "down"})

\* the medium opposite to md
Other(md) == IF md = MEDIA_RECOVERY THEN MEDIA_PRIMARY ELSE MEDIA_RECOVERY

\* the process died at point k during the tick
KilledAt(log, k) == \E p \in At(log, "killed") : log[p].val = k

\* C11: after the process died at any point of the media-switch path, under
\* continued failure and for as long as the node is on the same medium: every
\* reboot or poweroff the daemon requests finds BootNext set to the other
\* medium, so the next boot is from the other medium; a call of HARD either
\* requests such a halt or takes the media-switch path again, where it calls
\* set_next_boot_media for the other medium unless the process dies again; and
\* no process runs on forever: every tick at or past hard_reset_start calls an
\* action and a call of HARD ends the process.
C11_CrashSafeSwitch ==
  (killed.at # 0 /\ tick.op = "update")
    => /\ tick.halt # "none" => bootNext = Other(media)
       /\ CalledFunc(tick) = "hard"
            => /\ At(tick.log, "media_switch") # {} \/ tick.halt # "none"
               /\ proc \in {"down", "killed"}
       /\ (At(tick.log, "media_switch") # {} /\ ~KilledAt(tick.log, 1))
            => \E p \in At(tick.log, "set_next_boot_media") :
                 tick.log[p].val = Other(media)
       /\ tick.elapsed >= cfg.hard_reset_start => tick.called # <<>>

\* the process died after the hard counter was written to 0; started again on
\* the running system it found the hard tier unused, HARD requested poweroff, and
\* the boot that follows is from the other medium
C11_Witness ==
  /\ killed.at = 3
  /\ tick.op = "update"
  /\ CalledFunc(tick) = "hard"
  /\ tick.halt = "poweroff"
  /\ proc = "down"
  /\ BootMedia = Other(media)

\* C12: in the always-healthy run (window of 4, healthy 0.7, recovery 0.3,
\* network entries from 30 s every 15 s, soft at 100 s, hard at 200 s, ticks
\* 15 s apart, the probe passing on every tick) no tick calls a recovery action,
\* and the three counters read 0 once the window is healthy, so at the end of
\* the MaxTicks ticks.
C12_AlwaysHealthyNoAction ==
  tick.op = "update"
    => /\ tick.called = <<>>
       /\ \A i \in DOMAIN episode : episode[i] = 0
       /\ At(tick.log, "restart_services") = {}
       /\ tick.halt = "none"
       /\ (HealthyRatio \/ now >= (MaxTicks - 1) * cfg.health_check_period)
            => \A s \in Slots : CounterValue(files[s]) = 0

\* the last tick of the run: a window full of passes, the counters at 0 and
\* nothing left to reset
C12_Witness ==
  /\ tick.op = "update"
  /\ now = MaxTicks * cfg.health_check_period
  /\ CountTrue(history) = Len(history)
  /\ Len(history) = 4
  /\ \A s \in Slots : files[s] = 0
  /\ \A s \in Slots : Zeroed(tick.log, s) = {}

\* C13 as stated: in the always-healthy run every update() sets
\* last_connection_time to the clock value of its tick.
C13_AdvancesEveryTick ==
  tick.op = "update" => last_connection_time = now

\* C13, amended: in the always-healthy run update() sets last_connection_time
\* to the clock value of its tick on every tick whose window holds at least 3
\* passes out of 4, that is from the third tick on; the first two ticks (ratio
\* 0.25 and 0.5, the window starting all false) leave it at its value of
\* construction.
C13_AdvancesFromThirdTick ==
  tick.op = "update"
    => /\ Len(history) = 4
       /\ last_connection_time = (IF CountTrue(history) >= 3 THEN now ELSE 0)

\* the second tick, 30 s after construction, with the anchor still at 0
C13_Witness ==
  /\ tick.op = "update"
  /\ tick.ok
  /\ CountTrue(history) = 2
  /\ now = 2 * cfg.health_check_period
  /\ last_connection_time = 0

\* C14 as stated: in the flapping run no tick calls a recovery action, no
\* counter is reset and last_connection_time never advances.
C14_FlappingNoAction ==
  tick.op = "update"
    => /\ tick.called = <<>>
       /\ \A s \in Slots : Zeroed(tick.log, s) = {}
       /\ last_connection_time = 0

\* C14, amended: in the flapping run no counter is reset and
\* last_connection_time never advances; from the third tick on the window holds
\* 2 passes out of 4, the ratio is in the band and no action is called; the
\* first two ticks have ratio 0.25 and take the recovery branch, where the only
\* action ever called is the NETWORK entry at 30 s, on the second tick when
\* that tick comes 30 s after construction.
C14_FlappingAfterWarmup ==
  tick.op = "update"
    => /\ \A s \in Slots : Zeroed(tick.log, s) = {}
       /\ last_connection_time = 0
       /\ CountTrue(history) \in {1, 2}
       /\ CountTrue(history) = 2 => (InBand /\ tick.called = <<>>)
       /\ CountTrue(history) = 1 => RecoveryRatio
       /\ tick.called # <<>>
            => /\ tick.called = <<1>>
               /\ Ladder[1] = Action(30, "network")
               /\ ~tick.ok
               /\ tick.elapsed = 2 * cfg.health_check_period
       /\ (~tick.ok /\ CountTrue(history) = 1
              /\ tick.elapsed = 2 * cfg.health_check_period)
            => tick.called = <<1>>

\* the last tick of a run whose second tick restarted the network: in the band,
\* the NETWORK entry still in the fired set, the next entry due and not called
C14_Witness ==
  /\ tick.op = "update"
  /\ now = MaxTicks * cfg.health_check_period
  /\ InBand
  /\ tick.called = <<>>
  /\ called_actions = {Action(30, "network")}
  /\ DueUnfired # {}

\* C15: a healthy classification empties the fired set and moves the anchor to
\* that tick; on every tick of the recovery branch elapsed is measured from the
\* anchor and the first ladder entry that is due and not in the fired set is
\* invoked, whether or not it was invoked in an earlier failure burst, so the
\* entries whose threshold is reached are invoked one per tick, each at least
\* once (store and platform working).
C15_RecoveryForgets ==
  [][ tick'.op = "update"
        => /\ HealthyRatio'
                => (called_actions' = {} /\ last_connection_time' = now')
           /\ RecoveryRatio'
                => /\ tick'.elapsed = now' - last_connection_time
                   /\ \A i \in DOMAIN Ladder :
                        ( /\ Ladder[i].thresh <= tick'.elapsed
                          /\ Ladder[i] \notin called_actions
                          /\ \A j \in 1..(i - 1) : Ladder[j] \in called_actions )
                          => tick'.called = <<i>> ]_vars

\* in a second failure burst, an entry invoked in an earlier burst of the same
\* process is invoked again, elapsed counting from the healthy classification
C15_Witness ==
  /\ tick.op = "update"
  /\ RecoveryRatio
  /\ last_connection_time > 0
  /\ \E i \in past :
       /\ tick.called = <<i>>
       /\ Ladder[i].thresh <= now - last_connection_time
       /\ Ladder[i].thresh > 0

\* ladder position i and the next one have the same threshold
SameThresh(i) ==
  /\ i + 1 \in DOMAIN Ladder
  /\ Ladder[i].thresh = Ladder[i + 1].thresh

\* C16 as stated: for two ladder entries with the same threshold T, the first
\* failing tick with elapsed >= T invokes the earlier of the two, and the next
\* tick in the recovery branch invokes the other.
C16_SimultaneousAsStated ==
  [][ \A i \in DOMAIN Ladder :
        (SameThresh(i) /\ tick'.op = "update" /\ RecoveryRatio')
          => /\ ( /\ now - last_connection_time < Ladder[i].thresh
                  /\ tick'.elapsed >= Ladder[i].thresh )
                  => tick'.called = <<i>>
             /\ (Ladder[i] \in called_actions /\ Ladder[i + 1] \notin called_actions)
                  => tick'.called = <<i + 1>> ]_vars

\* C16, amended: for two ladder entries with the same threshold T (SOFT before
\* HARD, the order of construction), a tick in the recovery branch with
\* elapsed >= T that finds every earlier entry in the fired set and the first
\* of the two not in it invokes that one and not the other; and a tick of the
\* same process in the recovery branch that finds the first in the fired set
\* and the second not in it invokes the second.
C16_SimultaneousInOrder ==
  [][ \A i \in DOMAIN Ladder :
        (SameThresh(i) /\ tick'.op = "update" /\ RecoveryRatio')
          => /\ Ladder[i].func = "soft" /\ Ladder[i + 1].func = "hard"
             /\ ( /\ tick'.elapsed >= Ladder[i].thresh
                  /\ Ladder[i] \notin called_actions
                  /\ \A j \in 1..(i - 1) : Ladder[j] \in called_actions )
                  => /\ tick'.called = <<i>>
                     /\ Ladder[i + 1] \notin called_actions'
             /\ (Ladder[i] \in called_actions /\ Ladder[i + 1] \notin called_actions)
                  => tick'.called = <<i + 1>> ]_vars

\* SOFT was invoked and skipped on one tick, and this tick invoked HARD, which
\* has the same threshold
C16_Witness ==
  /\ tick.op = "update"
  /\ \E i \in DOMAIN Ladder :
       /\ SameThresh(i)
       /\ tick.called = <<i + 1>>
       /\ Ladder[i] \in called_actions
       /\ episode[i] = 1

\* C17: when the soft counter file exists and holds something int() rejects,
\* a call of SOFT with soft_num_resets >= 1 reads 0 without failing and goes on
\* as for a counter of 0: 1 is written to the file and reboot is requested.
C17_CorruptSoftCounter ==
  [][ ( /\ tick'.op = "update"
        /\ CalledFunc(tick') = "soft"
        /\ files["soft"] = Unparsable
        /\ cfg.soft_num_resets >= 1 )
        => /\ ~tick'.raised
           /\ \E k \in At(tick'.log, "read_failed") : tick'.log[k].slot = "soft"
           /\ \E k \in At(tick'.log, "write") :
                tick'.log[k].slot = "soft" /\ tick'.log[k].val = 1
           /\ files'["soft"] = 1
           /\ tick'.halt = "reboot"
           /\ tick'.snap["soft"] = 1 ]_vars

\* SOFT was called on a soft counter file that did not parse, wrote 1 and
\* requested reboot
C17_Witness ==
  /\ tick.op = "update"
  /\ CalledFunc(tick) = "soft"
  /\ \E k \in At(tick.log, "read_failed") : tick.log[k].slot = "soft"
  /\ files["soft"] = 1
  /\ tick.halt = "reboot"
  /\ proc = "down"

\* C18: update() calls an action only on a tick whose ratio after the sample is
\* below the recovery ratio, and only an entry whose threshold is at most
\* elapsed, the time since the last healthy classification or construction; the
\* entry called is the first in ladder order that is due and not in the fired
\* set, and it is in the fired set before its action runs, so also when the
\* action raises.
C18_FiresFirstDueUnfired ==
  [][ (tick'.op = "update" /\ tick'.called # <<>>)
        => LET i == tick'.called[1]
           IN /\ RecoveryRatio'
              /\ tick'.elapsed = now' - last_connection_time
              /\ Ladder[i].thresh <= tick'.elapsed
              /\ Ladder[i] \notin called_actions
              /\ \A j \in 1..(i - 1) :
                   ~(Ladder[j].thresh <= tick'.elapsed
                       /\ Ladder[j] \notin called_actions)
              /\ Ladder[i] \in called_actions' ]_vars

\* a tick skipped an entry fired before, called the next one, and the action
\* raised after the entry was put in the fired set
C18_Witness ==
  /\ tick.op = "update"
  /\ tick.raised
  /\ \E i \in DOMAIN Ladder :
       /\ i > 1
       /\ tick.called = <<i>>
       /\ Ladder[i] \in called_actions
       /\ episode[1] = 1

\* C19: the window holds at least one sample for every configuration,
\* health_check_history < health_check_period included, and update() computes
\* its ratio.
C19_WindowAtLeastOne ==
  tick.op = "update" => (Len(history) >= 1 /\ ~tick.raised)

\* the positions of a ladder that hold func
Entries(L, func) == {i \in DOMAIN L : L[i].func = func}

Min(a, b) == IF a < b THEN a ELSE b

\* the thresholds t = network_reset_start + k * network_reset_interval, k >= 0,
\* below both reboot thresholds, among the values a ladder of c can hold
NetworkTimes(c) ==
  LET last == Min(c.soft_reset_start, c.hard_reset_start)
      far == c.network_reset_start + last + 1
  IN {t \in (0 - far)..far :
        /\ t < last
        /\ \E k \in 0..(2 * far) :
             t = c.network_reset_start + k * c.network_reset_interval}

\* what C20 says of the ladder L built for configuration c
LadderAsSpecified(L, c) ==
  /\ \E i \in DOMAIN L : Entries(L, "soft") = {i} /\ L[i].thresh = c.soft_reset_start
  /\ \E i \in DOMAIN L : Entries(L, "hard") = {i} /\ L[i].thresh = c.hard_reset_start
  /\ {L[i].thresh : i \in Entries(L, "network")} = NetworkTimes(c)
  /\ Cardinality(Entries(L, "network")) = Cardinality(NetworkTimes(c))
  /\ DOMAIN L = Entries(L, "soft") \cup Entries(L, "hard") \cup Entries(L, "network")
  /\ \A i, j \in DOMAIN L : i < j => L[i].thresh <= L[j].thresh
  /\ \A i \in Entries(L, "soft"), j \in Entries(L, "hard") :
       L[i].thresh = L[j].thresh => i < j

Seen(n) == [i \in 1..n |-> FALSE] \o samples

\* the last n elements of s
LastN(s, n) == SubSeq(s, Len(s) - n + 1, Len(s))

\* how many elements of s are true
Trues(s) == Cardinality({i \in DOMAIN s : s[i]})

\* the last n samples added exist and all equal b
LastAddsAll(n, b) ==
  /\ Len(samples) >= n
  /\ \A i \in DOMAIN samples : i > Len(samples) - n => samples[i] = b

\* C21: after any sequence of add() calls on a window of capacity N, the window
\* holds exactly N samples and its ratio is (number of true among the last N
\* samples, the initial all-false fill counted) / N, with 0 <= true count <= N;
\* after N consecutive add(true) the ratio is 1.0 (true count = N) and after N
\* consecutive add(false) it is 0.0 (true count = 0).  The ratio is the pair
\* true count CountTrue(history) over maxlen Len(history).
C21_WindowRatio ==
  world = "window" =>
    LET N == HistoryCount(cfg)
    IN /\ Len(history) = N
       /\ CountTrue(history) = Trues(LastN(Seen(N), N))
       /\ 0 <= CountTrue(history) /\ CountTrue(history) <= N
       /\ LastAddsAll(N, TRUE) => CountTrue(history) = Len(history)
       /\ LastAddsAll(N, FALSE) => CountTrue(history) = 0

\* a window of 3 that has seen more samples than it holds, the evicted ones
\* differing from the kept ones, and whose last 3 adds were all true
C21_Witness ==
  /\ world = "window"
  /\ HistoryCount(cfg) = 3
  /\ samples = <<TRUE, FALSE, TRUE, TRUE, TRUE>>
  /\ LastAddsAll(3, TRUE)
  /\ CountTrue(history) = 3

\* the reboot tiers
RebootTier(i) == Ladder[i].func \in {"soft", "hard"}

\* C22: within one failure episode, on the ladder built by build_rec_actions
\* for whatever configuration, neither SOFT nor HARD is invoked while a NETWORK
\* entry is still unfired in the episode, and SOFT and HARD are invoked in
\* ascending order of threshold, also when elapsed passes several thresholds
\* between two ticks.
C22_TiersInOrder ==
  (tick.op = "update" /\ tick.called # <<>>) =>
    LET i == tick.called[1]
    IN RebootTier(i) =>
         \A j \in DOMAIN Ladder \ {i} :
           /\ Ladder[j].func = "network" => episode[j] >= 1
           /\ (RebootTier(j) /\ Ladder[j].thresh < Ladder[i].thresh)
                => episode[j] >= 1
           /\ (RebootTier(j) /\ Ladder[j].thresh > Ladder[i].thresh)
                => episode[j] = 0
====
